---------------------------- MODULE Spec2Model ----------------------------
(***************************************************************************)
(* Model of the aggregation core of umtap/unipept:                         *)
(*   - the sparse range-minimum-query index (rmq/src/lib.rs),              *)
(*   - the tree-based LCA aggregator (unipept/src/tree/lca.rs),            *)
(*   - the root-to-leaf aggregator (unipept/src/rmq/rtl.rs).               *)
(* Vectors are functions over 0..len-1 so that indices are the code's.     *)
(***************************************************************************)
EXTENDS Integers, Sequences, FiniteSets, TLC

VARIABLES
    array,       \* RMQInfo.array
    block_min,   \* RMQInfo.block_min
    sparse,      \* RMQInfo.sparse
    labels,      \* RMQInfo.labels
    rmq_new,     \* what RMQInfo::new returned: Ok or Err, or NoCall
    rmq_call,    \* the last RMQInfo::query call: [start, end, result] or NoCall
    taxons,      \* the taxon list: id -> parent, or None at a missing slot
    ancestors,   \* RTLCalculator.ancestors
    root,        \* LCACalculator.root
    parents,     \* LCACalculator.parents
    tour,        \* Euler tour: the taxon at each tour position
    first,       \* Euler tour: first tour position of each taxon
    taxa,        \* the list handed to the last aggregate call
    lca,         \* result of LCACalculator::aggregate(taxa), or NoCall
    rmq_lca,     \* result of the RMQ LCA aggregator on taxa, or NoCall
    rtl,         \* result of RTLCalculator::aggregate(taxa), or NoCall
    order,       \* iteration order of the count map in the last RTL call
    prev         \* the aggregate call before the last: [taxa, result], or NoCall

vars == <<array, block_min, sparse, labels, rmq_new, rmq_call, taxons, ancestors,
          root, parents, tour, first, taxa, lca, rmq_lca, rtl, order, prev>>

rmqVars == <<array, block_min, sparse, labels, rmq_new>>
taxVars == <<taxons, ancestors, root, parents, tour, first>>

(***************************************************************************)
(* Bounds of the model                                                     *)
(***************************************************************************)
MaxBlocks == 4      \* arrays span at most this many blocks
MaxTaxon == 4       \* taxon ids are 1..MaxTaxon
MaxInput == 3       \* aggregate is called with lists of at most this length
MaxCopies == 2      \* copies of the winner appended by the monotonicity step

(***************************************************************************)
(* Program constants                                                       *)
(***************************************************************************)
BlockSize == 32     \* array.chunks(32), i % 32
BlockShift == 5     \* right >> 5, clearbits(left, 5)
WordBits == 32      \* n as u32
XorMask == 31       \* leading_zeros() ^ 31
RootId == 1         \* ancestors[1] = None

None == [tag |-> "None"]
Some(v) == [tag |-> "Some", val |-> v]
NoCall == [tag |-> "NoCall"]

Ok(v) == [tag |-> "Ok", val |-> v]
Err(e) == [tag |-> "Err", err |-> e]
Panic == [tag |-> "Panic"]

(***************************************************************************)
(* Vec helpers                                                             *)
(***************************************************************************)
VLen(v) == Cardinality(DOMAIN v)
EmptyVec == [i \in {} |-> 0]
Min2(a, b) == IF a <= b THEN a ELSE b

(***************************************************************************)
(* Machine-word arithmetic                                                 *)
(***************************************************************************)
RECURSIVE ShiftRight(_, _)
ShiftRight(n, x) == IF x = 0 \/ n = 0 THEN n ELSE ShiftRight(n \div 2, x - 1)

RECURSIVE ShiftLeft(_, _)
ShiftLeft(n, x) == IF x = 0 \/ n = 0 THEN n ELSE ShiftLeft(2 * n, x - 1)

RECURSIVE BitOr(_, _)
BitOr(a, b) ==
    IF a = 0 THEN b
    ELSE IF b = 0 THEN a
    ELSE Min2(1, (a % 2) + (b % 2)) + (2 * BitOr(a \div 2, b \div 2))

RECURSIVE BitXor(_, _)
BitXor(a, b) ==
    IF a = 0 THEN b
    ELSE IF b = 0 THEN a
    ELSE (((a % 2) + (b % 2)) % 2) + (2 * BitXor(a \div 2, b \div 2))

\* u32::leading_zeros
RECURSIVE BitLength(_)
BitLength(n) == IF n = 0 THEN 0 ELSE 1 + BitLength(n \div 2)

leading_zeros(n) == WordBits - BitLength(n)

\* usize::trailing_zeros, for v # 0
RECURSIVE trailing_zeros(_)
trailing_zeros(v) == IF v % 2 = 1 THEN 0 ELSE 1 + trailing_zeros(v \div 2)

\* fn clearbits(n, x) = (n >> x) << x
clearbits(n, x) == ShiftLeft(ShiftRight(n, x), x)

\* fn intlog2(n) = ((n as u32).leading_zeros() ^ 31)
intlog2(n) == BitXor(leading_zeros(n), XorMask)

(***************************************************************************)
(* RMQInfo construction                                                    *)
(***************************************************************************)
NumChunks(n) == (n + BlockSize - 1) \div BlockSize

\* c.iter().enumerate().min_by_key(|&(_, val)| val).0 for chunk b:
\* the offset inside the chunk of its first minimum
ChunkMinOffset(arr, b) ==
    LET lo == b * BlockSize
        hi == Min2(lo + BlockSize, VLen(arr)) - 1
    IN  CHOOSE o \in 0..(hi - lo) :
            /\ \A p \in lo..hi : arr[lo + o] <= arr[p]
            /\ \A p \in lo..(lo + o - 1) : arr[p] > arr[lo + o]

\* RMQInfo::block_min
BlockMin(arr) ==
    [b \in 0..(NumChunks(VLen(arr)) - 1) |-> ChunkMinOffset(arr, b)]

\* RMQInfo::aggregate_minima: minima zipped with minima.skip(shift)
aggregate_minima(arr, shift, minima) ==
    [j \in 0..(VLen(minima) - shift - 1) |->
        LET l == minima[j]
            r == minima[j + shift]
        IN  IF arr[l] < arr[r] THEN l ELSE r]

\* 1 << i as a skip count; a skip of 2^30 or more empties every modelled vector
SkipOf(i) == ShiftLeft(1, Min2(i, WordBits - 2))

\* the vector holding the elements of a sequence, indexed from 0
VecOf(seq) == [k \in 0..(Len(seq) - 1) |-> seq[k + 1]]

\* the for loop of sparse; acc is the sequence of the levels pushed so far
RECURSIVE SparseLevels(_, _, _, _)
SparseLevels(arr, acc, i, length) ==
    IF i >= length THEN acc
    ELSE SparseLevels(arr,
                      Append(acc, aggregate_minima(arr, SkipOf(i), acc[Len(acc)])),
                      i + 1, length)

\* RMQInfo::sparse
Sparse(arr, bmin) ==
    LET length == intlog2(VLen(bmin))
        level0 == <<aggregate_minima(arr, 1, bmin)>>
    IN  VecOf(SparseLevels(arr, level0, 1, length))

\* the while loop popping the monotone stack, had it also popped equal values
RECURSIVE PopStackEqual(_, _, _)
PopStackEqual(arr, i, gstack) ==
    IF gstack # <<>> /\ arr[i] <= arr[gstack[Len(gstack)]]
    THEN PopStackEqual(arr, i, SubSeq(gstack, 1, Len(gstack) - 1))
    ELSE gstack

\* the while loop popping the monotone stack
RECURSIVE PopStack(_, _, _)
PopStack(arr, i, gstack) ==
    IF gstack # <<>> /\ arr[i] < arr[gstack[Len(gstack)]]
    THEN PopStack(arr, i, SubSeq(gstack, 1, Len(gstack) - 1))
    ELSE gstack

\* the for loop of labels; lab is the sequence of the labels pushed so far,
\* so that Len(lab) = i at the head of every iteration
RECURSIVE LabelsLoop(_, _, _, _)
LabelsLoop(arr, i, gstack, lab) ==
    IF Len(lab) >= VLen(arr) THEN lab
    ELSE LET cleared == IF i % BlockSize = 0 THEN <<>> ELSE gstack
             popped == PopStack(arr, i, cleared)
             li == IF popped # <<>>
                   THEN LET g == popped[Len(popped)]
                        IN  BitOr(lab[g + 1], ShiftLeft(1, g % BlockSize))
                   ELSE 0
         IN  LabelsLoop(arr, i + 1, Append(popped, i), Append(lab, li))

\* RMQInfo::labels
Labels(arr) == VecOf(LabelsLoop(arr, 0, <<>>, <<>>))

\* RMQInfo::new: the index is built and returned for every array
RMQNew(arr) ==
    LET bmin == BlockMin(arr)
    IN  Ok([array |-> arr, block_min |-> bmin,
            sparse |-> Sparse(arr, bmin), labels |-> Labels(arr)])

(***************************************************************************)
(* RMQInfo queries                                                         *)
(***************************************************************************)
\* RMQInfo::min_in_block, for right inside labels
min_in_block(lab, left, right) ==
    LET v == clearbits(lab[right], left % BlockSize)
    IN  IF v = 0 THEN right
        ELSE clearbits(left, BlockShift) + trailing_zeros(v)

InVec(v, i) == i \in DOMAIN v

\* the interior minimum m of a query over block_diff >= 2
InteriorMin(arr, bmin, sp, left, right, block_diff) ==
    IF block_diff = 2
    THEN bmin[ShiftRight(left, BlockShift) + 1]
    ELSE LET k == intlog2(block_diff - 1) - 1
             t1 == sp[k][ShiftRight(left, BlockShift) + 1]
             t2 == sp[k][ShiftRight(right, BlockShift) - ShiftLeft(1, k + 1)]
         IN  IF arr[t1] <= arr[t2] THEN t1 ELSE t2

\* RMQInfo::query; an access outside a vector panics
Query(arr, bmin, sp, lab, start, end) ==
    IF start = end THEN Ok(start)
    ELSE
      LET left == Min2(start, end)
          right == IF start < end THEN end ELSE start
          block_diff == ShiftRight(right, BlockShift) - ShiftRight(left, BlockShift)
          lend == clearbits(left, BlockShift) + BlockSize - 1
      IN  IF block_diff = 0
          THEN IF InVec(lab, right) THEN Ok(min_in_block(lab, left, right)) ELSE Panic
          ELSE IF ~InVec(lab, lend) \/ ~InVec(lab, right) THEN Panic
          ELSE
            LET l == min_in_block(lab, left, lend)
                r == min_in_block(lab, clearbits(right, BlockShift), right)
            IN  IF block_diff = 1
                THEN Ok(IF arr[l] <= arr[r] THEN l ELSE r)
                ELSE LET m == InteriorMin(arr, bmin, sp, left, right, block_diff)
                         ex == IF arr[l] <= arr[m] THEN l ELSE m
                     IN  Ok(IF arr[ex] <= arr[r] THEN ex ELSE r)

(***************************************************************************)
(* Arrays the index is built over                                          *)
(***************************************************************************)
Shapes == {"flat", "up", "down", "zigzag"}

ShapeVal(shape, i) ==
    CASE shape = "flat" -> 1
      [] shape = "up" -> 1 + (i % BlockSize)
      [] shape = "down" -> BlockSize - (i % BlockSize)
      [] shape = "zigzag" -> 1 + (i % 2)

\* an array of length n of the given shape with value 0 at position dip (if any)
ArrayOf(n, shape, dip) ==
    [i \in 0..(n - 1) |-> IF i = dip THEN 0 ELSE ShapeVal(shape, i)]

Offsets == {0, 1, BlockSize - 2, BlockSize - 1}
Marks == {b * BlockSize + o : b \in 0..(MaxBlocks - 1), o \in Offsets}

ArrayLens == {0} \cup {b * BlockSize + t : b \in 0..(MaxBlocks - 1),
                                           t \in {1, BlockSize - 1, BlockSize}}

NoDip == 0 - 1

Dips(n) == {NoDip} \cup {p \in Marks : p < n /\ p % BlockSize # BlockSize - 2}

\* indices a query is asked with: marked positions inside the array, and len
QueryIdx(n) == {p \in Marks : p < n} \cup {n}

(***************************************************************************)
(* RMQ specification                                                       *)
(***************************************************************************)
\* the outcome of RMQInfo::new as the state keeps it: the fields of an Ok value
\* are the variables array, block_min, sparse and labels
Built(result) == IF result.tag = "Ok" THEN Ok("RMQInfo") ELSE result

AggIdle ==
    /\ taxons = EmptyVec /\ ancestors = EmptyVec
    /\ root = RootId /\ parents = EmptyVec
    /\ tour = EmptyVec /\ first = EmptyVec
    /\ taxa = <<>> /\ lca = NoCall /\ rmq_lca = NoCall /\ rtl = NoCall
    /\ order = <<>> /\ prev = NoCall

\* RMQInfo::new
InitRMQ ==
    /\ \E n \in ArrayLens : \E shape \in Shapes : \E dip \in Dips(n) :
          array = ArrayOf(n, shape, dip)
    /\ \E built \in {RMQNew(array)} :
          /\ rmq_new = Built(built)
          /\ block_min = built.val.block_min
          /\ sparse = built.val.sparse
          /\ labels = built.val.labels
    /\ rmq_call = NoCall
    /\ AggIdle

\* a call of RMQInfo::query. The index is immutable, so every query sees the
\* state Init built: a behaviour is one construction followed by one query.
DoQuery ==
    /\ rmq_call.tag = "NoCall"
    /\ \E start \in QueryIdx(VLen(array)) : \E end \in QueryIdx(VLen(array)) :
          rmq_call' = [tag |-> "Call", start |-> start, end |-> end,
                       result |-> Query(array, block_min, sparse, labels, start, end)]
    /\ UNCHANGED <<rmqVars, taxVars, taxa, lca, rmq_lca, rtl, order, prev>>

NextRMQ == DoQuery

SpecRMQ == InitRMQ /\ [][NextRMQ]_vars

(***************************************************************************)
(* Taxonomy                                                                *)
(***************************************************************************)
\* taxon lists: slots 0..maxid; taxon 1 is the root and its own parent, every
\* other present taxon has a present parent of lower id; other slots are None
IsTaxonList(tl, maxid) ==
    /\ tl[0] = None
    /\ tl[RootId] = Some(RootId)
    /\ tl[maxid] # None
    /\ \A i \in 2..maxid :
          tl[i] # None => (tl[i].val < i /\ tl[tl[i].val] # None)

TaxonLists ==
    UNION {{tl \in [0..maxid -> {None} \cup {Some(p) : p \in 1..maxid}] :
               IsTaxonList(tl, maxid)} : maxid \in 1..MaxTaxon}

Present(tl) == {i \in DOMAIN tl : tl[i] # None}

\* TaxonList::ancestry
Ancestry(tl) == [i \in DOMAIN tl |-> IF i = RootId THEN None ELSE tl[i]]

\* RTLCalculator::new
RTLNew(tl) ==
    LET mapped == [i \in DOMAIN tl |-> tl[i]]
    IN  [mapped EXCEPT ![RootId] = None]

\* agg::count
Count(list) ==
    [t \in {list[i] : i \in DOMAIN list} |->
        Cardinality({i \in DOMAIN list : list[i] = t})]

\* counts.get(&t).unwrap_or(&0)
CountGet(counts, t) == IF t \in DOMAIN counts THEN counts[t] ELSE 0

(***************************************************************************)
(* RTL aggregator                                                          *)
(***************************************************************************)
\* the while-let loop of aggregate, had it never been entered
RtlWalkNoAncestors(anc, counts, next, acc) ==
    IF next \notin DOMAIN anc THEN Panic ELSE Ok(acc)

\* the while-let loop of aggregate: acc is *count, next the taxon walked from
RECURSIVE RtlWalk(_, _, _, _)
RtlWalk(anc, counts, next, acc) ==
    IF next \notin DOMAIN anc THEN Panic
    ELSE IF anc[next] = None THEN Ok(acc)
    ELSE RtlWalk(anc, counts, anc[next].val,
                 acc + CountGet(counts, anc[next].val))

\* rtl_counts after the for loop, had it started from zero instead of a clone
RtlCountsFromZero(anc, counts) ==
    [t \in DOMAIN counts |-> RtlWalk(anc, counts, t, 0)]

\* rtl_counts after the for loop
RtlCounts(anc, counts) ==
    [t \in DOMAIN counts |-> RtlWalk(anc, counts, t, counts[t])]

\* Iterator::max_by_key over the entries in iteration order: the first entry with
\* a strictly greater key than all before it wins
RECURSIVE MaxByKeyFirst(_, _, _, _)
MaxByKeyFirst(ord, key, i, best) ==
    IF i > Len(ord) THEN best
    ELSE MaxByKeyFirst(ord, key, i + 1,
                       IF key[ord[i]] > key[best] THEN ord[i] ELSE best)

\* Iterator::max_by_key over the entries in iteration order: a later entry
\* replaces the best so far unless its key is smaller
RECURSIVE MaxByKey(_, _, _, _)
MaxByKey(ord, key, i, best) ==
    IF i > Len(ord) THEN best
    ELSE MaxByKey(ord, key, i + 1,
                  IF key[ord[i]] >= key[best] THEN ord[i] ELSE best)

\* RTLCalculator::aggregate; ord is the iteration order of the count map
RTLAggregate(anc, list, ord) ==
    LET counts == Count(list)
        walked == RtlCounts(anc, counts)
    IN  IF \E t \in DOMAIN counts : walked[t] = Panic THEN Panic
        ELSE IF ord = <<>> THEN Err("Aggregation called on empty list.")
        ELSE Ok(MaxByKey(ord, [t \in DOMAIN counts |-> walked[t].val], 2, ord[1]))

\* the orders in which a map with the given keys can be iterated
Orders(keys) ==
    {o \in [1..Cardinality(keys) -> keys] : \A i, j \in DOMAIN o : i # j => o[i] # o[j]}

(***************************************************************************)
(* SubTree and the tree-based LCA aggregator                               *)
(***************************************************************************)
IsKnown(par, rt, t) == t = rt \/ (t \in DOMAIN par /\ par[t] # None)

\* t and its ancestors up to the root
RECURSIVE Chain(_, _)
Chain(par, t) == IF par[t] = None THEN {t} ELSE {t} \cup Chain(par, par[t].val)

RECURSIVE SubTreeNode(_, _, _, _)
SubTreeNode(par, counts, needed, t) ==
    [root |-> t,
     weight |-> CountGet(counts, t),
     children |-> {SubTreeNode(par, counts, needed, c) :
                      c \in {x \in needed : par[x] = Some(t)}}]

\* SubTree::new
SubTreeNew(rt, par, counts) ==
    IF \E t \in DOMAIN counts : ~IsKnown(par, rt, t)
    THEN Err("UnknownTaxon")
    ELSE Ok(SubTreeNode(par, counts,
                        {rt} \cup UNION {Chain(par, t) : t \in DOMAIN counts}, rt))

\* SubTree::collapse with Add::add
RECURSIVE Collapse(_)
Collapse(node) ==
    IF Cardinality(node.children) = 1
    THEN LET child == CHOOSE c \in node.children : TRUE
         IN  Collapse([child EXCEPT !.weight = node.weight + child.weight])
    ELSE [node EXCEPT !.children = {Collapse(c) : c \in node.children}]

\* LCACalculator::aggregate that returns the root of the uncollapsed subtree
LCAAggregateNoCollapse(rt, par, list) ==
    IF Len(list) = 0 THEN Err("EmptyInput")
    ELSE LET subtree == SubTreeNew(rt, par, Count(list))
         IN  IF subtree.tag = "Err" THEN subtree
             ELSE Ok(subtree.val.root)

\* LCACalculator::aggregate that skips the first taxon of the list
LCAAggregateSkipFirst(rt, par, list) ==
    IF Len(list) = 0 THEN Err("EmptyInput")
    ELSE LET subtree == SubTreeNew(rt, par, Count(Tail(list)))
         IN  IF subtree.tag = "Err" THEN subtree
             ELSE Ok(Collapse(subtree.val).root)

\* LCACalculator::aggregate without the check for an empty list
LCAAggregateNoEmptyCheck(rt, par, list) ==
    LET subtree == SubTreeNew(rt, par, Count(list))
    IN  IF subtree.tag = "Err" THEN subtree
        ELSE Ok(Collapse(subtree.val).root)

\* LCACalculator::aggregate
LCAAggregate(rt, par, list) ==
    IF Len(list) = 0 THEN Err("EmptyInput")
    ELSE LET subtree == SubTreeNew(rt, par, Count(list))
         IN  IF subtree.tag = "Err" THEN subtree
             ELSE Ok(Collapse(subtree.val).root)

(***************************************************************************)
(* Euler tour and the RMQ LCA aggregator                                   *)
(***************************************************************************)
Max2(a, b) == IF a >= b THEN a ELSE b

ChildrenOf(tl, t) == {c \in Present(tl) : c # RootId /\ tl[c] = Some(t)}

\* the tour of the subtree of t: t, then every child's tour followed by t again,
\* the children taken in ascending order of id (todo: the children still to visit)
RECURSIVE TourFrom(_, _, _)
TourFrom(tl, t, todo) ==
    IF todo = {} THEN <<>>
    ELSE LET c == CHOOSE x \in todo : \A y \in todo : x <= y
         IN  <<c>> \o TourFrom(tl, c, ChildrenOf(tl, c)) \o <<t>>
                   \o TourFrom(tl, t, todo \ {c})

\* build_tour: the visit sequence
EulerTour(tl) == VecOf(<<RootId>> \o TourFrom(tl, RootId, ChildrenOf(tl, RootId)))

\* build_tour: the depth at each tour position
EulerDepth(tl, tr) ==
    [i \in DOMAIN tr |-> Cardinality(Chain(Ancestry(tl), tr[i])) - 1]

\* build_tour: the first tour position of each taxon
EulerFirst(tl, tr) ==
    [t \in Present(tl) |->
        CHOOSE i \in DOMAIN tr : tr[i] = t /\ \A j \in 0..(i - 1) : tr[j] # t]

\* the pairwise left-to-right reduction acc = tour[rmq(first[acc], first[t])]
RECURSIVE RmqReduce(_, _, _)
RmqReduce(list, i, acc) ==
    IF i > Len(list) THEN acc
    ELSE LET q == Query(array, block_min, sparse, labels,
                        Min2(first[acc], first[list[i]]),
                        Max2(first[acc], first[list[i]]))
         IN  RmqReduce(list, i + 1, tour[q.val])

\* the RMQ LCA aggregator
RMQLCAAggregate(list) ==
    IF Len(list) = 0 THEN Err("EmptyInput")
    ELSE IF \E i \in DOMAIN list : list[i] \notin DOMAIN first
    THEN Err("UnknownTaxon")
    ELSE Ok(RmqReduce(list, 2, list[1]))

(***************************************************************************)
(* Aggregator specifications                                               *)
(***************************************************************************)
\* taxon ids a caller may pass: the slots of the list and one id beyond it
InputIds == 0..(MaxTaxon + 1)

RECURSIVE ListsUpTo(_, _)
ListsUpTo(ids, n) ==
    IF n = 0 THEN {<<>>}
    ELSE LET shorter == ListsUpTo(ids, n - 1)
         IN  shorter \cup {Append(l, t) : l \in {x \in shorter : Len(x) = n - 1}, t \in ids}

IsSorted(l) == \A i \in 1..(Len(l) - 1) : l[i] <= l[i + 1]

Call(list, result) == [tag |-> "Call", taxa |-> list, result |-> result]

RmqIdle ==
    /\ array = EmptyVec /\ block_min = EmptyVec /\ sparse = EmptyVec
    /\ labels = EmptyVec /\ rmq_new = NoCall /\ rmq_call = NoCall

\* LCACalculator::new, build_tour and RMQInfo::new over the depths
InitLCA ==
    /\ taxons \in TaxonLists
    /\ root = RootId
    /\ parents = Ancestry(taxons)
    /\ ancestors = EmptyVec
    /\ tour = EulerTour(taxons)
    /\ first = EulerFirst(taxons, tour)
    /\ array = EulerDepth(taxons, tour)
    /\ \E built \in {RMQNew(array)} :
          /\ rmq_new = Built(built)
          /\ block_min = built.val.block_min
          /\ sparse = built.val.sparse
          /\ labels = built.val.labels
    /\ rmq_call = NoCall
    /\ taxa = <<>> /\ lca = NoCall /\ rmq_lca = NoCall /\ rtl = NoCall
    /\ order = <<>> /\ prev = NoCall

\* a call of LCACalculator::aggregate
TreeAggregate ==
    /\ lca.tag = "NoCall"
    /\ \E list \in ListsUpTo(InputIds \ {MaxTaxon + 1}, MaxInput) :
          /\ taxa' = list
          /\ lca' = LCAAggregate(root, parents, list)
    /\ UNCHANGED <<rmqVars, rmq_call, taxVars, rmq_lca, rtl, order, prev>>

\* a call of the RMQ LCA aggregator with the list the tree aggregator was given
RmqAggregate ==
    /\ lca.tag # "NoCall" /\ rmq_lca.tag = "NoCall" /\ prev.tag = "NoCall"
    /\ rmq_lca' = RMQLCAAggregate(taxa)
    /\ UNCHANGED <<rmqVars, rmq_call, taxVars, taxa, lca, rtl, order, prev>>

\* a second call of LCACalculator::aggregate, with a list of present taxa
\* reordered
TreeAggregatePermuted ==
    /\ lca.tag = "Ok" /\ rmq_lca.tag = "NoCall" /\ prev.tag = "NoCall"
    /\ \E perm \in Orders(DOMAIN taxa) :
          /\ taxa' = [i \in DOMAIN taxa |-> taxa[perm[i]]]
          /\ lca' = LCAAggregate(root, parents, taxa')
    /\ prev' = Call(taxa, lca)
    /\ UNCHANGED <<rmqVars, rmq_call, taxVars, rmq_lca, rtl, order>>

NextLCA == TreeAggregate \/ RmqAggregate \/ TreeAggregatePermuted

SpecLCA == InitLCA /\ [][NextLCA]_vars

\* RTLCalculator::new and LCACalculator::new over the same taxon list
InitRTL ==
    /\ taxons \in TaxonLists
    /\ ancestors = RTLNew(taxons)
    /\ root = RootId /\ parents = Ancestry(taxons)
    /\ tour = EmptyVec /\ first = EmptyVec
    /\ RmqIdle
    /\ taxa = <<>> /\ lca = NoCall /\ rmq_lca = NoCall /\ rtl = NoCall
    /\ order = <<>> /\ prev = NoCall

\* a call of RTLCalculator::aggregate; the count map iterates in some order
RtlAggregate ==
    /\ rtl.tag = "NoCall"
    /\ \E list \in {l \in ListsUpTo(InputIds, MaxInput) : IsSorted(l)} :
       \E ord \in Orders(DOMAIN Count(list)) :
          /\ taxa' = list
          /\ order' = ord
          /\ rtl' = RTLAggregate(ancestors, list, ord)
    /\ UNCHANGED <<rmqVars, rmq_call, taxVars, lca, rmq_lca, prev>>

RECURSIVE Copies(_, _)
Copies(t, k) == IF k = 0 THEN <<>> ELSE Append(Copies(t, k - 1), t)

\* a second call of RTLCalculator::aggregate, with copies of the winner appended
\* to a list of present taxa
RtlAggregateAppended ==
    /\ rtl.tag = "Ok" /\ prev.tag = "NoCall" /\ lca.tag = "NoCall"
    /\ \A i \in DOMAIN taxa : taxa[i] \in DOMAIN taxons /\ taxons[taxa[i]] # None
    /\ \E k \in 1..MaxCopies : \E ord \in Orders(DOMAIN Count(taxa)) :
          /\ taxa' = taxa \o Copies(rtl.val, k)
          /\ order' = ord
          /\ rtl' = RTLAggregate(ancestors, taxa', ord)
    /\ prev' = Call(taxa, rtl)
    /\ UNCHANGED <<rmqVars, rmq_call, taxVars, lca, rmq_lca>>

\* a call of LCACalculator::aggregate with the list the RTL aggregator was given
TreeAggregateSame ==
    /\ rtl.tag # "NoCall" /\ lca.tag = "NoCall" /\ prev.tag = "NoCall"
    /\ lca' = LCAAggregate(root, parents, taxa)
    /\ UNCHANGED <<rmqVars, rmq_call, taxVars, taxa, rmq_lca, rtl, order, prev>>

NextRTL == RtlAggregate \/ RtlAggregateAppended \/ TreeAggregateSame

SpecRTL == InitRTL /\ [][NextRTL]_vars

(***************************************************************************)
(* Claims about the RMQ index                                              *)
(***************************************************************************)
\* the least index in l..r holding the minimum of arr[l..=r]
LeastMinIndex(arr, l, r) ==
    CHOOSE i \in l..r :
        /\ \A p \in l..r : arr[i] <= arr[p]
        /\ \A p \in l..(i - 1) : arr[p] > arr[i]

InRangeCall ==
    /\ rmq_call.tag = "Call"
    /\ rmq_call.start <= rmq_call.end
    /\ rmq_call.end < VLen(array)

CallBlockDiff ==
    ShiftRight(rmq_call.end, BlockShift) - ShiftRight(rmq_call.start, BlockShift)

\* C1: for every non-empty array and all 0 <= l <= r < len, query(l, r) is the
\* least index in l..r that holds the minimum of array[l..=r], whether the
\* range lies in one block, in two adjacent blocks or spans interior blocks.
C1_QueryIsLeastMinIndex ==
    InRangeCall =>
        rmq_call.result = Ok(LeastMinIndex(array, rmq_call.start, rmq_call.end))

OutOfRangeCall ==
    /\ rmq_call.tag = "Call"
    /\ (rmq_call.start >= VLen(array) \/ rmq_call.end >= VLen(array))

\* C11: a query with start or end outside the array, start = end included,
\* ends in the IndexOutOfBounds error outcome and never yields an index as a
\* normal result.
C11_OutOfRangeQueryIsError ==
    OutOfRangeCall => rmq_call.result.tag # "Ok"

\* C12: RMQInfo::new on a zero-length array is rejected with the EmptyArray
\* error and never yields an index.
C12_EmptyArrayIsRejected ==
    (rmq_new.tag # "NoCall" /\ VLen(array) = 0) => rmq_new = Err("EmptyArray")

\* the last position of block b of an array of length n
BlockEnd(b, n) == Min2(b * BlockSize + BlockSize, n) - 1

\* C13: for every block b, block_min[b] is the index into the array, not the
\* offset inside the block, of the first minimum of block b.
C13_BlockMinIsArrayIndex ==
    \A b \in DOMAIN block_min :
        block_min[b] = LeastMinIndex(array, b * BlockSize, BlockEnd(b, VLen(array)))

\* for the range l..r and every range lo..r, ..., (l-1)..r of the same block,
\* min_in_block gives the least index of the minimum; best is that index for
\* (l+1)..r, carried along as l moves left
RECURSIVE RowIsLeastMin(_, _, _, _, _, _)
RowIsLeastMin(arr, lab, lo, l, r, best) ==
    IF l < lo THEN TRUE
    ELSE LET here == IF l = r \/ arr[l] > arr[best] THEN best ELSE l
         IN  /\ min_in_block(lab, l, r) = here
             /\ RowIsLeastMin(arr, lab, lo, l - 1, r, here)

\* C14: labels[r] has bits only for in-block offsets below r mod 32, and for
\* every l <= r inside one block min_in_block(labels, l, r) is the position
\* of the minimum of array[l..=r], the leftmost one among equal values.
\* The labels are written by RMQInfo::new alone, so they are examined in the
\* state it leaves.
C14_LabelsAnswerInBlockQueries ==
    rmq_call.tag = "NoCall" =>
        \A r \in DOMAIN labels :
            /\ ShiftRight(labels[r], r % BlockSize) = 0
            /\ RowIsLeastMin(array, labels, clearbits(r, BlockShift), r, r, r)

\* a block after the first where a label has several bits, the answer lies
\* strictly inside the range and the minimum occurs again to its right
C14_Witness ==
    /\ rmq_call.tag = "NoCall"
    /\ \E r \in DOMAIN labels :
          LET l == clearbits(r, BlockShift) + 1
              m == min_in_block(labels, l, r)
          IN  /\ r >= BlockSize /\ l < r
              /\ l < m /\ m < r
              /\ m = LeastMinIndex(array, l, r)
              /\ \E p \in (m + 1)..r : array[p] = array[m]
              /\ labels[r] > ShiftLeft(1, m % BlockSize)

(***************************************************************************)
(* Claims about the aggregators                                            *)
(***************************************************************************)
TaxaSet(list) == {list[i] : i \in DOMAIN list}

AllPresent(list) == \A i \in DOMAIN list : list[i] \in Present(taxons)

\* t and its ancestors in the taxonomy, read off the taxon list
RECURSIVE AncOrSelf(_)
AncOrSelf(t) == IF t = RootId THEN {t} ELSE {t} \cup AncOrSelf(taxons[t].val)

\* every taxon of S is r or a descendant of r
Covers(r, S) == \A t \in S : r \in AncOrSelf(t)

\* r covers S and no proper descendant of r does
IsDeepestCovering(r, S) ==
    /\ Covers(r, S)
    /\ \A d \in Present(taxons) : (d # r /\ r \in AncOrSelf(d)) => ~Covers(d, S)

\* the taxa of S with no proper descendant in S
Deepest(S) == {t \in S : \A u \in S : t \in AncOrSelf(u) => u = t}

OnOnePath(S) == \A a, b \in S : a \in AncOrSelf(b) \/ b \in AncOrSelf(a)

TreeCalled == lca.tag # "NoCall" /\ taxa # <<>> /\ AllPresent(taxa)

\* C2: on every non-empty list of present taxa the RMQ LCA aggregator and
\* the tree-based aggregator return the same taxon, also when one queried
\* taxon is an ancestor of another.
C2_RmqLcaEqualsTreeLca ==
    (TreeCalled /\ rmq_lca.tag # "NoCall") => rmq_lca = lca

\* C3 as stated: the tree-based aggregate returns the deepest taxon whose
\* subtree contains every queried taxon.
C3_TreeLcaCoversAllQueried ==
    TreeCalled => (lca.tag = "Ok" /\ IsDeepestCovering(lca.val, TaxaSet(taxa)))

\* C3 as amended: the tree-based aggregate returns the deepest taxon whose
\* subtree contains every queried taxon that has no queried proper descendant.
C3_TreeLcaCoversDeepestQueried ==
    TreeCalled =>
        (lca.tag = "Ok" /\ IsDeepestCovering(lca.val, Deepest(TaxaSet(taxa))))

C3_Witness ==
    /\ TreeCalled /\ lca.tag = "Ok"
    /\ Cardinality(Deepest(TaxaSet(taxa))) >= 2
    /\ Deepest(TaxaSet(taxa)) # TaxaSet(taxa)
    /\ lca.val # RootId

\* C4: when all queried taxa lie on one root-to-leaf path the tree-based
\* aggregate returns the deepest queried taxon, not the shallowest.
C4_OnePathGivesDeepest ==
    (TreeCalled /\ OnOnePath(TaxaSet(taxa))) =>
        (lca.tag = "Ok" /\ lca.val \in TaxaSet(taxa)
         /\ \A t \in TaxaSet(taxa) : t \in AncOrSelf(lca.val))

C4_Witness ==
    /\ TreeCalled /\ OnOnePath(TaxaSet(taxa))
    /\ Cardinality(TaxaSet(taxa)) >= 2
    /\ lca.tag = "Ok" /\ lca.val \in TaxaSet(taxa)
    /\ \E t \in TaxaSet(taxa) : t # lca.val /\ t \in AncOrSelf(lca.val)

IsPermutation(a, b) ==
    /\ Len(a) = Len(b)
    /\ \A t \in TaxaSet(a) \cup TaxaSet(b) : CountGet(Count(a), t) = CountGet(Count(b), t)

\* C5: LCACalculator::aggregate returns the same taxon for a non-empty list
\* of present taxa and for every reordering of it.
C5_TreeLcaPermutationInvariant ==
    (prev.tag = "Call" /\ TreeCalled /\ IsPermutation(prev.taxa, taxa)) =>
        (lca.tag = "Ok" /\ lca = prev.result)

C5_Witness ==
    /\ prev.tag = "Call" /\ TreeCalled /\ IsPermutation(prev.taxa, taxa)
    /\ taxa # prev.taxa /\ Cardinality(TaxaSet(taxa)) >= 3
    /\ lca.tag = "Ok" /\ lca.val # RootId

RtlCalled == rtl.tag # "NoCall" /\ taxa # <<>> /\ AllPresent(taxa)

Occurrences(list, t) == Cardinality({i \in DOMAIN list : list[i] = t})

RECURSIVE SumOccurrences(_, _)
SumOccurrences(list, S) ==
    IF S = {} THEN 0
    ELSE LET t == CHOOSE x \in S : TRUE
         IN  Occurrences(list, t) + SumOccurrences(list, S \ {t})

\* the RTL score: occurrences of the taxon and of every ancestor up to the root
Score(list, t) == SumOccurrences(list, AncOrSelf(t))

IsMaximiser(list, t) ==
    t \in TaxaSet(list) /\ \A u \in TaxaSet(list) : Score(list, u) <= Score(list, t)

\* C6: RTLCalculator::aggregate returns Ok(t) with t an input taxon of maximal
\* score, the score being the occurrences of t and of all its ancestors; a
\* taxon with a proper descendant in the input never wins.
C6_RtlReturnsMaximiser ==
    RtlCalled =>
        /\ rtl.tag = "Ok"
        /\ IsMaximiser(taxa, rtl.val)
        /\ rtl.val \in Deepest(TaxaSet(taxa))

C6_Witness ==
    /\ RtlCalled /\ rtl.tag = "Ok"
    /\ \E a \in TaxaSet(taxa) :
          /\ a # rtl.val /\ a \in AncOrSelf(rtl.val)
          /\ Occurrences(taxa, a) > Occurrences(taxa, rtl.val)
    /\ \E u \in TaxaSet(taxa) : Score(taxa, u) < Score(taxa, rtl.val)

Maximisers(list) == {t \in TaxaSet(list) : IsMaximiser(list, t)}

\* the position of taxon t in the iteration order of the count map
PosIn(ord, t) == CHOOSE i \in DOMAIN ord : ord[i] = t

\* C7 as stated: among the taxa sharing the maximal score the first one in the
\* iteration order of the count map is returned.
C7_RtlTieGivesFirst ==
    RtlCalled =>
        (rtl.tag = "Ok" /\ rtl.val \in Maximisers(taxa)
         /\ \A u \in Maximisers(taxa) : PosIn(order, rtl.val) <= PosIn(order, u))

\* C7 as amended: among the taxa sharing the maximal score the last one in the
\* iteration order of the count map is returned.
C7_RtlTieGivesLast ==
    RtlCalled =>
        (rtl.tag = "Ok" /\ rtl.val \in Maximisers(taxa)
         /\ \A u \in Maximisers(taxa) : PosIn(order, u) <= PosIn(order, rtl.val))

C7_Witness ==
    /\ RtlCalled /\ rtl.tag = "Ok"
    /\ Cardinality(Maximisers(taxa)) >= 2
    /\ Cardinality(TaxaSet(taxa)) > Cardinality(Maximisers(taxa))
    /\ order[Len(order)] \notin Maximisers(taxa)
    /\ \E u \in Maximisers(taxa) : PosIn(order, u) < PosIn(order, rtl.val)

\* the list b is the list a followed by one or more copies of w
IsAppended(a, b, w) ==
    /\ Len(b) > Len(a)
    /\ \A i \in 1..Len(b) : b[i] = IF i <= Len(a) THEN a[i] ELSE w

\* C8: if aggregate(L) returned w, then aggregate of L followed by copies of w
\* returns w again, and w is then the only taxon of maximal score.
C8_RtlMonotone ==
    (prev.tag = "Call" /\ prev.result.tag = "Ok" /\ RtlCalled
     /\ IsAppended(prev.taxa, taxa, prev.result.val)) =>
        (rtl = prev.result /\ Maximisers(taxa) = {prev.result.val})

C8_Witness ==
    /\ prev.tag = "Call" /\ prev.result.tag = "Ok" /\ RtlCalled
    /\ IsAppended(prev.taxa, taxa, prev.result.val)
    /\ Cardinality(Maximisers(prev.taxa)) >= 2
    /\ order[Len(order)] # prev.result.val
    /\ rtl = prev.result

\* C9: aggregate on an empty list returns an error, never a taxon:
\* Err(EmptyInput) from LCACalculator, Err from RTLCalculator.
C9_EmptyListIsError ==
    /\ (taxa = <<>> /\ lca.tag # "NoCall") => lca = Err("EmptyInput")
    /\ (taxa = <<>> /\ rtl.tag # "NoCall") => rtl.tag = "Err"

C9_Witness ==
    /\ taxa = <<>> /\ lca.tag = "Err" /\ rtl.tag = "Err"
    /\ Cardinality(Present(taxons)) >= 2

\* C10: when the input of RTLCalculator::aggregate contains an id that is not
\* present in the taxonomy, the call returns an UnknownTaxon error.
C10_RtlUnknownTaxonIsError ==
    (rtl.tag # "NoCall" /\ ~AllPresent(taxa)) => rtl = Err("UnknownTaxon")

=============================================================================
